---- MODULE Spec2Model ----
(***************************************************************************)
(* Token lifecycle of backend/src/app.py: the issuance endpoint            *)
(* (get_token), the authorization gate (token_required) in front of the    *)
(* protected endpoint, and the diagnostics endpoint (validate_session).    *)
(*                                                                         *)
(* Time is counted in clock ticks, TicksPerSec of them to the second; the  *)
(* JWT codec stores timestamps in whole seconds.  A string is a record:    *)
(* segs is the number of dot-separated JWT segments it parses into (3 for  *)
(* a JWT, 1 for any other text, 0 for Python's None), text is its content  *)
(* when it is not a JWT.                                                   *)
(***************************************************************************)
EXTENDS Integers, Sequences, FiniteSets, TLC

VARIABLES SECRET_KEY, now, steps, issued, req, resp, threads, ctx

vars == <<SECRET_KEY, now, steps, issued, req, resp, threads, ctx>>

\* ---- bounds of the model ----
NumKeys == 2
NumSessions == 1
MaxIssued == 1
MaxSteps == 2
MaxDrift == 1
TicksPerSec == 2
NumThreads == 2

Keys == 1..NumKeys
SessionIds == 1..NumSessions
Threads == 1..NumThreads

\* timedelta(hours=24), in seconds
Lifetime == 24 * 3600

\* ---- strings and tokens ----
NoPayload == [session |-> 0, role |-> "", iat |-> 0, exp |-> 0]
NoSig == [key |-> 0, over |-> NoPayload]

Str(text) == [segs |-> 1, alg |-> "", text |-> text, payload |-> NoPayload, sig |-> NoSig]

None == [segs |-> 0, alg |-> "", text |-> "", payload |-> NoPayload, sig |-> NoSig]
EmptyStr == Str("")
SP == Str(" ")
Bearer == Str("Bearer")
Basic == Str("Basic")
Garbage == Str("garbage")

\* Python truthiness of an optional string: None and "" are falsy
Truthy(s) == s # None /\ s # EmptyStr

\* HMAC over the exact payload under a key
Sign(payload, key) == [key |-> key, over |-> payload]

\* datetime -> integer seconds, as the codec stores iat and exp
ToTimestamp(t) == t \div TicksPerSec

\* jwt.encode(payload, key, algorithm='HS256')
Encode(payload, key) ==
    LET p == [payload EXCEPT !.iat = ToTimestamp(@), !.exp = ToTimestamp(@)]
    IN [segs |-> 3, alg |-> "HS256", text |-> "", payload |-> p, sig |-> Sign(p, key)]

\* jwt.decode(token, key, algorithms=['HS256']) at clock value t

\* variant: the exp claim is looked at before the signature
Decode_ExpiryFirst(token, key, t) ==
    IF token.segs # 3 THEN "Malformed"
    ELSE IF token.alg # "HS256" THEN "Malformed"
    ELSE IF token.payload.exp * TicksPerSec <= t THEN "Expired"
    ELSE IF token.sig # Sign(token.payload, key) THEN "SignatureInvalid"
    ELSE "Valid"

\* variant: the exp claim is never looked at
Decode_NoExpiry(token, key, t) ==
    IF token.segs # 3 THEN "Malformed"
    ELSE IF token.alg # "HS256" THEN "Malformed"
    ELSE IF token.sig # Sign(token.payload, key) THEN "SignatureInvalid"
    ELSE "Valid"

\* variant: the signature is compared by its key only, not over the payload
Decode_KeyOnly(token, key, t) ==
    IF token.segs # 3 THEN "Malformed"
    ELSE IF token.alg # "HS256" THEN "Malformed"
    ELSE IF token.sig.key # key THEN "SignatureInvalid"
    ELSE IF token.payload.exp * TicksPerSec <= t THEN "Expired"
    ELSE "Valid"

\* variant: a token is still accepted at the instant now = exp
Decode_LateExpiry(token, key, t) ==
    IF token.segs # 3 THEN "Malformed"
    ELSE IF token.alg # "HS256" THEN "Malformed"
    ELSE IF token.sig # Sign(token.payload, key) THEN "SignatureInvalid"
    ELSE IF token.payload.exp * TicksPerSec < t THEN "Expired"
    ELSE "Valid"

\* the codec as called at lines 40, 64 and 154: segments, algorithm,
\* signature, then expiry (expired from the instant now = exp on)
Decode(token, key, t) ==
    IF token.segs # 3 THEN "Malformed"
    ELSE IF token.alg # "HS256" THEN "Malformed"
    ELSE IF token.sig # Sign(token.payload, key) THEN "SignatureInvalid"
    ELSE IF token.payload.exp * TicksPerSec <= t THEN "Expired"
    ELSE "Valid"

\* ---- the Authorization header ----
\* A header value is a sequence of atoms, each a space (SP) or a maximal
\* run of non-space characters; str.split(" ") cuts it at every space.
RECURSIVE SplitFrom(_, _, _)
SplitFrom(h, i, cur) ==
    IF i > Len(h) THEN <<cur>>
    ELSE IF h[i] = SP THEN <<cur>> \o SplitFrom(h, i + 1, EmptyStr)
    ELSE SplitFrom(h, i + 1, h[i])

Split(h) == SplitFrom(h, 1, EmptyStr)

NoHeader == [present |-> FALSE, value |-> <<>>]
Header(v) == [present |-> TRUE, value |-> v]

\* ---- requests and responses ----
NoBody == [session |-> 0, token_type |-> "absent", token |-> None, client_info |-> "absent"]

\* at is the clock when the handler starts, done the clock when it returns
NoRequest ==
    [op |-> "none", header |-> NoHeader, body |-> NoBody, at |-> 0, done |-> 0, key |-> 0]

NoResponse ==
    [status |-> 0, error |-> "", token |-> None, session |-> 0, role |-> "",
     reused |-> FALSE, minted |-> None, decoded |-> FALSE, handler_ran |-> FALSE,
     current_user |-> NoPayload, token_valid |-> FALSE, fields |-> {},
     token_info |-> NoPayload, token_error |-> "", token_provided |-> FALSE,
     session_provided |-> FALSE, session_received |-> 0, logged |-> {}]

\* lines 84-95: the payload of a fresh token and its encoding; t1 and t2 are
\* the two datetime.utcnow() reads of lines 90 and 91
\* variant: the 24 hours are not added
Mint_NoLifetime(session_id, key, t1, t2) ==
    Encode([session |-> session_id, role |-> "User", iat |-> t1, exp |-> t2], key)

Mint(session_id, key, t1, t2) ==
    Encode([session |-> session_id, role |-> "User", iat |-> t1,
            exp |-> t2 + Lifetime * TicksPerSec], key)

\* get_token (GET /app): header is the Authorization header, t the clock at
\* entry, session_id the value of secrets.token_hex(16), d the time that
\* passes between the two clock reads of the payload
\* variant: the presented token is ignored
get_token_AlwaysFresh(header, key, t, session_id, d) ==
    LET token == Mint(session_id, key, t, t + d)
    IN [NoResponse EXCEPT !.status = 200, !.token = token, !.minted = token,
            !.session = session_id, !.role = "User", !.reused = FALSE,
            !.fields = {"token", "session", "role", "reused"}]

\* variant: ExpiredSignatureError is not caught at line 79
get_token_Propagate(header, key, t, session_id, d) ==
    LET parts == IF header.present THEN Split(header.value) ELSE <<>>
        has_token == header.present /\ Len(parts) >= 2
        outcome == IF has_token THEN Decode(parts[2], key, t) ELSE "None"
        token == Mint(session_id, key, t, t + d)
    IN IF outcome = "Valid"
       THEN [NoResponse EXCEPT !.status = 200, !.token = parts[2], !.decoded = TRUE,
                !.session = parts[2].payload.session, !.role = parts[2].payload.role,
                !.reused = TRUE, !.fields = {"token", "session", "role", "reused"}]
       ELSE IF outcome = "Expired"
       THEN [NoResponse EXCEPT !.status = 401, !.decoded = TRUE,
                !.error = "Token has expired", !.fields = {"error"}]
       ELSE [NoResponse EXCEPT !.status = 200, !.token = token, !.minted = token,
                !.decoded = has_token,
                !.session = session_id, !.role = "User", !.reused = FALSE,
                !.fields = {"token", "session", "role", "reused"}]

get_token(header, key, t, session_id, d) ==
    LET parts == IF header.present THEN Split(header.value) ELSE <<>>
        \* line 61: auth_header.split(" ")[1] raises IndexError on one part
        has_token == header.present /\ Len(parts) >= 2
        outcome == IF has_token THEN Decode(parts[2], key, t) ELSE "None"
        token == Mint(session_id, key, t, t + d)
    IN IF outcome = "Valid"
       THEN [NoResponse EXCEPT !.status = 200, !.token = parts[2], !.decoded = TRUE,
                !.session = parts[2].payload.session, !.role = parts[2].payload.role,
                !.reused = TRUE, !.fields = {"token", "session", "role", "reused"}]
       ELSE [NoResponse EXCEPT !.status = 200, !.token = token, !.minted = token,
                !.decoded = has_token,
                !.session = session_id, !.role = "User", !.reused = FALSE,
                !.fields = {"token", "session", "role", "reused"}]

\* token_required.decorated followed, on admission, by protected_endpoint
\* variant: ExpiredSignatureError has no except clause of its own
token_required_OneMessage(header, key, t) ==
    LET parts == IF header.present THEN Split(header.value) ELSE <<>>
        token == IF header.present /\ Len(parts) >= 2 THEN parts[2] ELSE None
        outcome == Decode(token, key, t)
        reject(msg, dec) == [NoResponse EXCEPT !.status = 401, !.error = msg,
                                !.decoded = dec, !.fields = {"error"}]
    IN IF header.present /\ Len(parts) < 2 THEN reject("Invalid token format", FALSE)
       ELSE IF ~Truthy(token) THEN reject("Token is missing", FALSE)
       ELSE IF outcome # "Valid" THEN reject("Invalid token", TRUE)
       ELSE [NoResponse EXCEPT !.status = 200, !.decoded = TRUE, !.handler_ran = TRUE,
                !.current_user = token.payload,
                !.session = token.payload.session, !.role = token.payload.role,
                !.fields = {"message", "your_data", "user_info"}]

\* variant: a failing token is replaced by a fresh one, as get_token does
token_required_Reissue(header, key, t) ==
    LET parts == IF header.present THEN Split(header.value) ELSE <<>>
        token == IF header.present /\ Len(parts) >= 2 THEN parts[2] ELSE None
        outcome == Decode(token, key, t)
        fresh == Mint(1, key, t, t)
        reject(msg, dec) == [NoResponse EXCEPT !.status = 401, !.error = msg,
                                !.decoded = dec, !.fields = {"error"}]
    IN IF header.present /\ Len(parts) < 2 THEN reject("Invalid token format", FALSE)
       ELSE IF ~Truthy(token) THEN reject("Token is missing", FALSE)
       ELSE IF outcome # "Valid"
       THEN [NoResponse EXCEPT !.status = 200, !.decoded = TRUE, !.handler_ran = TRUE,
                !.token = fresh, !.minted = fresh, !.current_user = fresh.payload,
                !.session = 1, !.role = "User",
                !.fields = {"message", "your_data", "user_info", "token"}]
       ELSE [NoResponse EXCEPT !.status = 200, !.decoded = TRUE, !.handler_ran = TRUE,
                !.current_user = token.payload,
                !.session = token.payload.session, !.role = token.payload.role,
                !.fields = {"message", "your_data", "user_info"}]

\* variant: the scheme word has to be Bearer
token_required_BearerOnly(header, key, t) ==
    LET parts == IF header.present THEN Split(header.value) ELSE <<>>
        token == IF header.present /\ Len(parts) >= 2 THEN parts[2] ELSE None
        outcome == Decode(token, key, t)
        reject(msg, dec) == [NoResponse EXCEPT !.status = 401, !.error = msg,
                                !.decoded = dec, !.fields = {"error"}]
    IN IF header.present /\ Len(parts) < 2 THEN reject("Invalid token format", FALSE)
       ELSE IF header.present /\ parts[1] # Bearer THEN reject("Invalid token format", FALSE)
       ELSE IF ~Truthy(token) THEN reject("Token is missing", FALSE)
       ELSE IF outcome = "Expired" THEN reject("Token has expired", TRUE)
       ELSE IF outcome # "Valid" THEN reject("Invalid token", TRUE)
       ELSE [NoResponse EXCEPT !.status = 200, !.decoded = TRUE, !.handler_ran = TRUE,
                !.current_user = token.payload,
                !.session = token.payload.session, !.role = token.payload.role,
                !.fields = {"message", "your_data", "user_info"}]

token_required(header, key, t) ==
    LET parts == IF header.present THEN Split(header.value) ELSE <<>>
        \* lines 28-33: token stays None without a header
        token == IF header.present /\ Len(parts) >= 2 THEN parts[2] ELSE None
        outcome == Decode(token, key, t)
        reject(msg, dec) == [NoResponse EXCEPT !.status = 401, !.error = msg,
                                !.decoded = dec, !.fields = {"error"}]
    IN IF header.present /\ Len(parts) < 2 THEN reject("Invalid token format", FALSE)
       ELSE IF ~Truthy(token) THEN reject("Token is missing", FALSE)
       ELSE IF outcome = "Expired" THEN reject("Token has expired", TRUE)
       ELSE IF outcome # "Valid" THEN reject("Invalid token", TRUE)
       ELSE [NoResponse EXCEPT !.status = 200, !.decoded = TRUE, !.handler_ran = TRUE,
                !.current_user = token.payload,
                !.session = token.payload.session, !.role = token.payload.role,
                !.fields = {"message", "your_data", "user_info"}]

\* validate_session (POST /validate): body is the parsed JSON object.
\* token_type is the JSON type of body['token'] ("absent" for a missing or
\* null one), client_info the JSON type of body['client_info'].  An
\* exception no handler catches leaves the view and is answered 500.
validate_session(body, key, t) ==
    LET session_id == body.session
        token == IF body.token_type = "string" THEN body.token ELSE None
        outcome == Decode(token, key, t)
        valid == Truthy(token) /\ outcome = "Valid"
        crash == [NoResponse EXCEPT !.status = 500]
    IN \* line 140: client_info.items() on a value that is not an object
       IF body.client_info = "string" THEN crash
       \* line 151: token[:20] on a truthy value that is not a string
       ELSE IF body.token_type = "number" THEN crash
       ELSE [NoResponse EXCEPT !.status = 200, !.decoded = Truthy(token),
                !.token_valid = valid,
                !.session_received = session_id,
                !.token_provided = body.token_type # "absent",
                !.session_provided = session_id # 0,
                !.token_info = IF valid THEN token.payload ELSE NoPayload,
                !.token_error = IF ~Truthy(token) \/ valid THEN ""
                                ELSE IF outcome = "Expired" THEN "Token expired"
                                ELSE "Invalid token",
                \* lines 165-168: the comparison only chooses a log line
                !.logged = IF ~valid THEN {}
                           ELSE IF session_id # 0 /\ session_id # token.payload.session
                                THEN {"Session ID mismatch"}
                                ELSE {"Session ID matches token"},
                !.fields = {"status", "session_received", "token_valid", "timestamp", "diagnostics"}
                           \cup (IF valid THEN {"token_info"}
                                 ELSE IF Truthy(token) THEN {"token_error"} ELSE {})]

\* ---- what a client can send ----
\* a token with its role rewritten and its signature kept
Tamper(token) == [token EXCEPT !.payload.role = "Admin"]
\* a token re-labelled with the unsigned algorithm
Unsign(token) == [token EXCEPT !.alg = "none", !.sig = NoSig]

Presentable == issued \cup {Tamper(x) : x \in issued} \cup {Unsign(x) : x \in issued}
                 \cup {Garbage}

Headers ==
    {NoHeader, Header(<<>>), Header(<<Bearer>>), Header(<<Bearer, SP>>)}
      \cup {Header(<<Bearer, SP, x>>) : x \in Presentable}
      \cup {Header(<<Basic, SP, x>>) : x \in issued}
      \cup {Header(<<Bearer, SP, SP, x>>) : x \in issued}
      \cup {Header(<<Bearer, SP, x, SP, Garbage>>) : x \in issued}

\* a caller may claim any session id, also one that was never assigned
Claimed == 0..(NumSessions + 1)

Bodies ==
    [session : Claimed, token_type : {"absent"}, token : {None},
     client_info : {"absent", "object", "string"}]
      \cup [session : Claimed, token_type : {"number"}, token : {None},
            client_info : {"absent"}]
      \cup [session : Claimed, token_type : {"string"},
            token : Presentable \cup {EmptyStr}, client_info : {"absent", "string"}]

\* ---- requests served concurrently ----
\* One record per worker thread: the request it serves, the values it has
\* read so far (key, the clock at decode t0 and at lines 90 and 91, t1 and
\* t2, the session id drawn at line 84) and its response once it has one.
Idle ==
    [pc |-> "idle", op |-> "none", header |-> NoHeader, body |-> NoBody,
     key |-> 0, t0 |-> 0, t1 |-> 0, t2 |-> 0, session_id |-> 0, out |-> NoResponse]

\* variant: current_user is kept in one module-level variable
Context_Global(th) == 0

\* line 41: flask's request is local to the request being served, so
\* request.current_user lives in the serving thread's own context
Context(th) == th

\* protected_endpoint (lines 209-228) on the claims the gate attached
protected_endpoint(current_user) ==
    [NoResponse EXCEPT !.status = 200, !.decoded = TRUE, !.handler_ran = TRUE,
        !.current_user = current_user,
        !.session = current_user.session, !.role = current_user.role,
        !.fields = {"message", "your_data", "user_info"}]

\* ---- the state machine ----
Init ==
    /\ SECRET_KEY \in Keys
    /\ now \in 0..(TicksPerSec - 1)
    /\ steps = 0
    /\ issued = {}
    /\ req = NoRequest
    /\ resp = NoResponse
    /\ threads = [th \in Threads |-> Idle]
    /\ ctx = [slot \in 0..NumThreads |-> NoPayload]

Keep(token) == IF Cardinality(issued) < MaxIssued THEN issued \cup {token} ELSE issued

GetToken ==
    \E header \in Headers, session_id \in SessionIds, d \in 0..MaxDrift :
        LET r == get_token(header, SECRET_KEY, now, session_id, d)
            fresh == r.minted # None
        IN /\ fresh /\ d > 0 => steps < MaxSteps
           /\ ~fresh => d = 0
           /\ req' = [NoRequest EXCEPT !.op = "get_token", !.header = header,
                         !.at = now, !.done = now + d, !.key = SECRET_KEY]
           /\ resp' = r
           /\ now' = now + d
           /\ steps' = IF d > 0 THEN steps + 1 ELSE steps
           /\ issued' = IF r.status = 200 THEN Keep(r.token) ELSE issued
           /\ UNCHANGED <<SECRET_KEY, threads, ctx>>

Protected ==
    \E header \in Headers :
        /\ req' = [NoRequest EXCEPT !.op = "protected", !.header = header,
                      !.at = now, !.done = now, !.key = SECRET_KEY]
        /\ resp' = token_required(header, SECRET_KEY, now)
        /\ UNCHANGED <<SECRET_KEY, now, steps, issued, threads, ctx>>

Validate ==
    \E body \in Bodies :
        /\ req' = [NoRequest EXCEPT !.op = "validate", !.body = body,
                      !.at = now, !.done = now, !.key = SECRET_KEY]
        /\ resp' = validate_session(body, SECRET_KEY, now)
        /\ UNCHANGED <<SECRET_KEY, now, steps, issued, threads, ctx>>

\* the wall clock moves on: by one tick, or to one tick short of a lifetime
Advance ==
    \E d \in {1, Lifetime * TicksPerSec - 1} :
        /\ steps < MaxSteps
        /\ now' = now + d
        /\ steps' = steps + 1
        /\ UNCHANGED <<SECRET_KEY, issued, req, resp, threads, ctx>>

\* the process restarts: line 19 runs again
Restart ==
    /\ SECRET_KEY' \in Keys
    /\ SECRET_KEY' # SECRET_KEY
    /\ UNCHANGED <<now, steps, issued, req, resp, threads, ctx>>

Next == GetToken \/ Protected \/ Validate \/ Advance \/ Restart

Spec == Init /\ [][Next]_vars

\* ---- the same handlers, interleaved at their reads of shared state ----
\* what concurrent clients can send: the tokens they were handed
ConcHeaders ==
    {NoHeader} \cup {Header(<<Bearer, SP, x>>) : x \in issued \cup {Garbage}}

ConcBodies ==
    [session : {0}, token_type : {"string"}, token : issued, client_info : {"absent"}]

\* the workers start serving in parallel once a first client holds a token:
\* the state GetToken leaves behind when it is called without a header
ConcInit ==
    \E key \in Keys, t \in 0..(TicksPerSec - 1), session_id \in SessionIds :
        LET r == get_token(NoHeader, key, t, session_id, 0)
        IN /\ SECRET_KEY = key
           /\ now = t
           /\ steps = 0
           /\ issued = {r.token}
           /\ req = [NoRequest EXCEPT !.op = "get_token", !.at = t, !.done = t, !.key = key]
           /\ resp = r
           /\ threads = [th \in Threads |-> Idle]
           /\ ctx = [slot \in 0..NumThreads |-> NoPayload]

\* a request arrives and a worker picks it up
Begin(th) ==
    /\ threads[th].pc = "idle"
    /\ \/ \E op \in {"get_token", "protected"}, header \in ConcHeaders :
            threads' = [threads EXCEPT ![th] =
                          [Idle EXCEPT !.pc = "decode", !.op = op, !.header = header]]
       \/ \E body \in ConcBodies :
            threads' = [threads EXCEPT ![th] =
                          [Idle EXCEPT !.pc = "decode", !.op = "validate", !.body = body]]
    /\ UNCHANGED <<SECRET_KEY, now, steps, issued, req, resp, ctx>>

\* lines 25-45, 58-81 and 147-175: the header or body is taken apart and
\* jwt.decode reads SECRET_KEY and the clock
DecodeStep(th) ==
    LET me == threads[th]
        seen == [me EXCEPT !.key = SECRET_KEY, !.t0 = now]
        gate == token_required(me.header, SECRET_KEY, now)
        reuse == get_token(me.header, SECRET_KEY, now, 1, 0)
    IN /\ me.pc = "decode"
       /\ IF me.op = "protected"
          THEN IF gate.status = 200
               THEN /\ ctx' = [ctx EXCEPT ![Context(th)] = gate.current_user]
                    /\ threads' = [threads EXCEPT ![th] = [seen EXCEPT !.pc = "handler"]]
               ELSE /\ ctx' = ctx
                    /\ threads' = [threads EXCEPT ![th] =
                                     [seen EXCEPT !.pc = "done", !.out = gate]]
          ELSE IF me.op = "get_token"
          THEN /\ ctx' = ctx
               /\ threads' = [threads EXCEPT ![th] =
                                IF reuse.reused
                                THEN [seen EXCEPT !.pc = "done", !.out = reuse]
                                ELSE [seen EXCEPT !.pc = "mint1", !.out = reuse]]
          ELSE /\ ctx' = ctx
               /\ threads' = [threads EXCEPT ![th] =
                                [seen EXCEPT !.pc = "done",
                                    !.out = validate_session(me.body, SECRET_KEY, now)]]
       /\ UNCHANGED <<SECRET_KEY, now, steps, issued, req, resp>>

\* line 47 and lines 214-228: the view runs on request.current_user
Handler(th) ==
    /\ threads[th].pc = "handler"
    /\ threads' = [threads EXCEPT ![th].pc = "done",
                                  ![th].out = protected_endpoint(ctx[Context(th)])]
    /\ UNCHANGED <<SECRET_KEY, now, steps, issued, req, resp, ctx>>

\* lines 84-90: the session id is drawn and the clock read for iat
MintIat(th) ==
    /\ threads[th].pc = "mint1"
    /\ \E session_id \in SessionIds :
          threads' = [threads EXCEPT ![th].pc = "mint2", ![th].t1 = now,
                                     ![th].session_id = session_id]
    /\ UNCHANGED <<SECRET_KEY, now, steps, issued, req, resp, ctx>>

\* lines 91-104: the clock is read for exp and the payload signed
MintExp(th) ==
    LET me == threads[th]
        token == Mint(me.session_id, SECRET_KEY, me.t1, now)
    IN /\ me.pc = "mint2"
       /\ threads' = [threads EXCEPT ![th].pc = "done", ![th].t2 = now,
                         ![th].out = [me.out EXCEPT !.token = token, !.minted = token,
                                         !.session = me.session_id]]
       /\ UNCHANGED <<SECRET_KEY, now, steps, issued, req, resp, ctx>>

\* the response leaves, the client keeps a token it was handed, and the
\* request context is torn down
Finish(th) ==
    /\ threads[th].pc = "done"
    /\ threads' = [threads EXCEPT ![th] = Idle]
    /\ issued' = IF threads[th].op = "get_token" THEN Keep(threads[th].out.token)
                 ELSE issued
    /\ ctx' = [ctx EXCEPT ![Context(th)] = NoPayload]
    /\ UNCHANGED <<SECRET_KEY, now, steps, req, resp>>

\* the wall clock ticks while requests are being served
Tick ==
    /\ steps < MaxSteps
    /\ now' = now + 1
    /\ steps' = steps + 1
    /\ UNCHANGED <<SECRET_KEY, issued, req, resp, threads, ctx>>

ConcNext ==
    \/ \E th \in Threads : Begin(th)
    \/ \E th \in Threads : DecodeStep(th)
    \/ \E th \in Threads : Handler(th)
    \/ \E th \in Threads : MintIat(th)
    \/ \E th \in Threads : MintExp(th)
    \/ \E th \in Threads : Finish(th)
    \/ Tick

ConcSpec == ConcInit /\ [][ConcNext]_vars

\* ---- properties ----
\* the parts of the last request's Authorization header
ReqParts == IF req.header.present THEN Split(req.header.value) ELSE <<>>
\* the last request carried 'Authorization: Bearer <one token T>'
BearerOf(T) == req.header = Header(<<Bearer, SP, T>>)
\* T is an HS256 token signed under key k over its own payload
SignedBy(T, k) == T.segs = 3 /\ T.alg = "HS256" /\ T.sig = Sign(T.payload, k)
\* the outcome jwt.decode had for T when the last request started
OutcomeAtRequest(T) == Decode(T, req.key, req.at)

\* C1: get_token called with 'Authorization: Bearer T', T correctly signed
\* under the current key and not yet expired, answers 200 with the same
\* token string T, the session and role carried in T and reused = true, and
\* mints no token.
C1_ReuseLiveToken ==
    \A T \in Presentable :
        (req.op = "get_token" /\ BearerOf(T) /\ SignedBy(T, req.key)
            /\ req.at < T.payload.exp * TicksPerSec)
        => /\ resp.status = 200
           /\ resp.token = T
           /\ resp.session = T.payload.session
           /\ resp.role = T.payload.role
           /\ resp.reused
           /\ resp.minted = None

C1_Witness ==
    \E T \in issued :
        /\ req.op = "get_token" /\ BearerOf(T) /\ SignedBy(T, req.key)
        /\ req.at < T.payload.exp * TicksPerSec
        /\ req.at > T.payload.iat * TicksPerSec
        /\ resp.reused /\ resp.token = T

\* C2: get_token called with a token T that is expired, malformed or signed
\* with another key answers with a freshly minted token T' # T and
\* reused = false, and T' decodes as Valid under the current key at the
\* moment of return.
C2_ReplaceDeadToken ==
    \A T \in Presentable :
        (req.op = "get_token" /\ BearerOf(T)
            /\ OutcomeAtRequest(T) \in {"Expired", "Malformed", "SignatureInvalid"})
        => /\ resp.token # T
           /\ resp.token = resp.minted
           /\ ~resp.reused
           /\ Decode(resp.token, req.key, req.done) = "Valid"

C2_Witness ==
    \E T \in issued :
        /\ req.op = "get_token" /\ BearerOf(T)
        /\ OutcomeAtRequest(T) = "Expired"
        /\ ~resp.reused /\ resp.token # T
        /\ Decode(resp.token, req.key, req.done) = "Valid"

\* C3: get_token never answers with an error status: whatever the
\* Authorization header and the clock, the status is 200 and the body holds
\* exactly token, session, role and reused.
C3_IssuanceNeverFails ==
    req.op = "get_token"
    => /\ resp.status = 200
       /\ resp.fields = {"token", "session", "role", "reused"}
       /\ resp.token # None

C3_Witness ==
    /\ req.op = "get_token"
    /\ \E T \in issued : BearerOf(T) /\ OutcomeAtRequest(T) = "Expired"
    /\ resp.status = 200

\* C4: in the gate, an absent Authorization header is rejected with the
\* missing-token error, and a header that does not split into exactly a
\* scheme and a non-empty token part is rejected with 'Invalid token format'
\* without the token being decoded.
C4_HeaderShapeRejected ==
    req.op = "protected"
    => /\ ~req.header.present => resp.error = "Token is missing"
       /\ (req.header.present /\ (Len(ReqParts) # 2 \/ ReqParts[2] = EmptyStr))
          => (resp.status = 401 /\ resp.error = "Invalid token format" /\ ~resp.decoded)

\* C5: for every token the gate hands to jwt.decode the decision follows the
\* outcome: Valid admits, attaches the claims and runs the handler; Expired
\* is rejected with 'Token has expired'; Malformed and SignatureInvalid with
\* 'Invalid token'; every rejection is a 401 and never runs the handler.
C5_GateFollowsDecode ==
    req.op = "protected"
    => /\ resp.status \in {200, 401}
       /\ resp.status = 401 => (~resp.handler_ran /\ resp.current_user = NoPayload)
       /\ (Len(ReqParts) >= 2 /\ Truthy(ReqParts[2]))
          => LET T == ReqParts[2]
                 good == SignedBy(T, req.key)
                 live == req.at < T.payload.exp * TicksPerSec
             IN /\ (good /\ live)
                   => (resp.status = 200 /\ resp.handler_ran /\ resp.current_user = T.payload)
                /\ (good /\ ~live)
                   => (resp.status = 401 /\ resp.error = "Token has expired")
                /\ ~good
                   => (resp.status = 401 /\ resp.error = "Invalid token")

C5_Witness ==
    /\ req.op = "protected" /\ Len(ReqParts) >= 2
    /\ ReqParts[2] \in issued
    /\ SignedBy(ReqParts[2], req.key)
    /\ req.at >= ReqParts[2].payload.exp * TicksPerSec
    /\ resp.error = "Token has expired" /\ ~resp.handler_ran

\* the token the last request submitted for decoding
Submitted ==
    IF req.op = "validate" THEN req.body.token
    ELSE IF Len(ReqParts) >= 2 THEN ReqParts[2] ELSE None
ExpiresInPast(T) == T.segs = 3 /\ T.payload.exp * TicksPerSec < req.at
\* what the caller is told about the submitted token
SaysExpired ==
    /\ req.op = "protected" => resp.error = "Token has expired"
    /\ (req.op = "validate" /\ resp.status = 200) => resp.token_error = "Token expired"

C7_OtherKeyRejected ==
    \A K1 \in Keys :
        (req.op \in {"protected", "get_token"} /\ Len(ReqParts) >= 2
            /\ SignedBy(ReqParts[2], K1) /\ K1 # req.key)
        => /\ OutcomeAtRequest(ReqParts[2]) = "SignatureInvalid"
           /\ req.op = "protected" => (resp.status = 401 /\ resp.error = "Invalid token")
           /\ req.op = "get_token" => (~resp.reused /\ resp.token # ReqParts[2])

C7_Witness ==
    /\ req.op = "protected" /\ Len(ReqParts) >= 2
    /\ ReqParts[2] \in issued
    /\ \E K1 \in Keys : K1 # req.key /\ SignedBy(ReqParts[2], K1)
    /\ req.at >= ReqParts[2].payload.exp * TicksPerSec
    /\ resp.error = "Invalid token"

\* C8: every freshly minted token carries expires_at = issued_at + 24 hours,
\* whatever the clock does during the call.
C8_ExpiryIsIssuedPlusLifetime ==
    (req.op = "get_token" /\ resp.minted # None)
    => resp.minted.payload.exp = resp.minted.payload.iat + Lifetime

\* C9: validate_session answers 200 for every body, reports token_valid =
\* true exactly when the supplied token decodes as Valid, reports a
\* token_error mentioning expiry for an expired token and one not mentioning
\* expiry for a malformed or wrongly signed one.
C9_DiagnosticsAlwaysSucceeds ==
    req.op = "validate"
    => LET T == req.body.token
           o == OutcomeAtRequest(T)
       IN /\ resp.status = 200
          /\ resp.token_valid <=> (req.body.token_type = "string" /\ o = "Valid")
          /\ (req.body.token_type = "string" /\ o = "Expired")
             => resp.token_error = "Token expired"
          /\ (req.body.token_type = "string" /\ Truthy(T)
                /\ o \in {"Malformed", "SignatureInvalid"})
             => resp.token_error = "Invalid token"

\* C10: when validate_session gets a caller-supplied session id and a token
\* that decodes as Valid with another session id, the returned record holds
\* a warning field flagging the mismatch and the status is 200.
C10_MismatchWarningField ==
    (req.op = "validate" /\ req.body.token_type = "string"
        /\ OutcomeAtRequest(req.body.token) = "Valid"
        /\ req.body.session # 0
        /\ req.body.session # req.body.token.payload.session)
    => (resp.status = 200 /\ "warning" \in resp.fields)

\* a step that serves a request on the protected route
GateStep == req'.op = "protected" /\ <<req', resp'>> # <<req, resp>>

\* C11: the gate never mutates or regenerates tokens: whether it admits or
\* rejects, it mints no token, returns no token in its body, leaves the
\* signing key and the set of issued tokens as they were, and a token that
\* fails to decode is rejected with 401, never replaced by a fresh one.
C11_GateMintsNothing ==
    /\ [](req.op = "protected"
            => /\ resp.minted = None
               /\ resp.token = None
               /\ "token" \notin resp.fields
               /\ (Len(ReqParts) >= 2 /\ OutcomeAtRequest(ReqParts[2]) # "Valid")
                  => (resp.status = 401 /\ resp.fields = {"error"}))
    /\ [][GateStep => (SECRET_KEY' = SECRET_KEY /\ issued' = issued)]_vars

C11_Witness ==
    /\ req.op = "protected" /\ Len(ReqParts) >= 2
    /\ ReqParts[2] \in issued
    /\ OutcomeAtRequest(ReqParts[2]) = "Expired"
    /\ resp.status = 401 /\ resp.minted = None /\ resp.token = None

\* C13: there is no role escalation: when clients present only strings that
\* issuance returned or strings not signed under the current key, every
\* token get_token returns (fresh or reused) and every token the gate admits
\* carries role 'User' and the session id it was minted with.
C13_NoRoleEscalation ==
    /\ req.op = "get_token"
       => /\ resp.role = "User"
          /\ resp.token.payload.role = "User"
          /\ resp.session = resp.token.payload.session
          /\ SignedBy(resp.token, req.key)
          /\ resp.reused => resp.token \in issued
    /\ (req.op = "protected" /\ resp.status = 200)
       => /\ resp.current_user.role = "User"
          /\ resp.role = "User"
          /\ \E T \in issued : resp.current_user = T.payload
                                 /\ resp.session = T.payload.session

C13_Witness ==
    \E T \in issued :
        /\ req.op = "protected" /\ BearerOf(Tamper(T))
        /\ SignedBy(T, req.key) /\ req.at < T.payload.exp * TicksPerSec
        /\ resp.status = 401 /\ resp.error = "Invalid token"

\* C14: expiry is strict, without leeway: a token signed under the current
\* key is Valid exactly while now < expires_at and Expired from the instant
\* now = expires_at on, so the gate admits it and get_token reuses it at
\* every time before expires_at and at no time from expires_at on.
C14_StrictExpiry ==
    \A T \in issued :
        (req.op \in {"protected", "get_token"} /\ BearerOf(T) /\ SignedBy(T, req.key))
        => IF req.at < T.payload.exp * TicksPerSec
           THEN /\ OutcomeAtRequest(T) = "Valid"
                /\ req.op = "protected" => (resp.status = 200 /\ resp.handler_ran)
                /\ req.op = "get_token" => (resp.reused /\ resp.token = T)
           ELSE /\ OutcomeAtRequest(T) = "Expired"
                /\ req.op = "protected"
                   => (resp.status = 401 /\ resp.error = "Token has expired")
                /\ req.op = "get_token" => (~resp.reused /\ resp.token # T)

C14_Witness ==
    \E T \in issued :
        /\ req.op = "protected" /\ BearerOf(T) /\ SignedBy(T, req.key)
        /\ req.at = T.payload.exp * TicksPerSec
        /\ resp.status = 401 /\ resp.error = "Token has expired"

\* C15: whenever the diagnostics response says a token was provided
\* (token_provided = true) it holds exactly one of token_info (with
\* token_valid true) and token_error (with token_valid false), for every
\* supplied token value, the empty string included.
C15_InfoOrErrorWhenProvided ==
    (req.op = "validate" /\ resp.status = 200 /\ resp.token_provided)
    => /\ ("token_info" \in resp.fields) # ("token_error" \in resp.fields)
       /\ "token_info" \in resp.fields <=> resp.token_valid

\* C16: the gate and get_token agree on every input: for the same
\* Authorization header, clock value and signing key the gate admits the
\* request if and only if get_token answers reused = true.
C16_GateAgreesWithIssuance ==
    /\ req.op = "protected"
       => (resp.status = 200
             <=> get_token(req.header, req.key, req.at, 1, 0).reused)
    /\ req.op = "get_token"
       => (resp.reused
             <=> token_required(req.header, req.key, req.at).status = 200)

C16_Witness ==
    \E T \in issued :
        /\ req.op = "protected"
        /\ req.header = Header(<<Basic, SP, T>>)
        /\ resp.status = 200 /\ resp.handler_ran
        /\ get_token(req.header, req.key, req.at, 1, 0).reused

\* what a request answers when it is served alone with the key and the clock
\* values its thread has read
Alone(me) ==
    IF me.op = "protected" THEN token_required(me.header, me.key, me.t0)
    ELSE IF me.op = "validate" THEN validate_session(me.body, me.key, me.t0)
    ELSE LET r == get_token(me.header, me.key, me.t0, me.session_id, 0)
             token == Mint(me.session_id, me.key, me.t1, me.t2)
         IN IF r.reused THEN r
            ELSE [r EXCEPT !.token = token, !.minted = token]

\* C12: concurrent requests share nothing mutable but the read-only signing
\* key: no handler step writes SECRET_KEY, and under every interleaving each
\* finished request's response is what the same request would get alone from
\* its own header or body, the key and the clock values it read.
C12_RequestsIndependent ==
    /\ [](\A th \in Threads :
            threads[th].pc = "done"
            => (threads[th].out = Alone(threads[th]) /\ threads[th].key = SECRET_KEY))
    /\ [][SECRET_KEY' = SECRET_KEY]_vars

C12_Witness ==
    \E a \in Threads, b \in Threads :
        /\ a # b
        /\ threads[a].pc = "done" /\ threads[a].op = "protected"
        /\ threads[a].out.status = 200
        /\ threads[a].out.current_user # NoPayload
        /\ threads[b].op = "protected" /\ threads[b].pc = "handler"

====
